---- MODULE Spec2Model ----
(***************************************************************************)
(* examples/fmri_fsl_feeds.py: the module body of the FSL FEEDS first-level *)
(* pipeline example, executed statement by statement, followed by the      *)
(* execution of the l1pipeline graph when the file is run as a script.     *)
(*                                                                         *)
(* Python values are modelled as follows: a list is a sequence, a dict or  *)
(* a Bunch is a record, a float is an exact rational [num, den], a path is *)
(* the sequence of its components, None is the string "None".              *)
(***************************************************************************)
EXTENDS Integers, Sequences, FiniteSets, TLC

VARIABLES
    cwd,       \* the process's working directory (os.path.abspath reads it)
    pc,        \* index in Program of the next statement of the module body
    globals,   \* module-level names bound so far -> value
    objects,   \* node / workflow objects constructed so far -> descriptor
    attrs,     \* attribute assignments made so far: dotted path -> value
    edges,     \* edges declared with l1pipeline.connect
    runs,      \* number of times l1pipeline.run() has been invoked
    phase,     \* "load" (executing the module body) or "exec" (inside run())
    status,    \* during run(): graph node -> "pending" | "running" | "done"
    order      \* during run(): the nodes in the order they were started

vars == <<cwd, pc, globals, objects, attrs, edges, runs, phase, status, order>>

None == "None"

----------------------------------------------------------------------------
(* Inputs of an execution of the file *)

\* __name__ is '__main__' when the file is executed, the module name on import
Names == {"__main__", "fmri_fsl_feeds"}

\* working directories the file may be started in
Cwds == {<<"home", "user">>, <<"data", "study", "feeds_run">>, <<>>}

----------------------------------------------------------------------------
(* Numbers: Python floats as exact rationals *)

RECURSIVE Gcd(_, _)
Gcd(a, b) == IF b = 0 THEN a ELSE Gcd(b, a % b)

Abs(a) == IF a < 0 THEN -a ELSE a

Rat(n, d) ==
    LET g == Gcd(Abs(n), Abs(d))
        s == IF d < 0 THEN -1 ELSE 1
    IN  [num |-> (s * n) \div g, den |-> (s * d) \div g]

FromInt(n) == Rat(n, 1)

\* a / b (true division by a float)
Div(a, b) == Rat(a.num * b.den, a.den * b.num)

\* a * b
Mul(a, b) == Rat(a.num * b.num, a.den * b.den)

\* int(x): truncation toward zero
int(x) == IF x.num >= 0 THEN x.num \div x.den ELSE -((-x.num) \div x.den)

\* range(start, stop, step) for step > 0, as the list of its elements
RECURSIVE range(_, _, _)
range(start, stop, step) ==
    IF start >= stop THEN <<>>
    ELSE <<start>> \o range(start + step, stop, step)

----------------------------------------------------------------------------
(* Paths *)

\* os.path.normpath on a component list: drops '.', resolves '..'
RECURSIVE NormPath(_, _)
NormPath(done, rest) ==
    IF rest = <<>> THEN done
    ELSE IF Head(rest) = "." THEN NormPath(done, Tail(rest))
    ELSE IF Head(rest) = ".."
         THEN NormPath(IF done = <<>> THEN done ELSE SubSeq(done, 1, Len(done) - 1),
                       Tail(rest))
    ELSE NormPath(Append(done, Head(rest)), Tail(rest))

\* os.path.abspath(rel) evaluated in working directory dir
abspath(dir, rel) == NormPath(<<>>, dir \o rel)

----------------------------------------------------------------------------
(* Values of the expressions on the right-hand sides of the module body.   *)
(* Each is evaluated in the state in which its statement executes.         *)

Lookup(n) == globals[n]

\* line 68: os.path.abspath('feeds/data')
feeds_data_dir == abspath(cwd, <<"feeds", "data">>)

\* two runs listed for the functional field
info_two_runs == [func |-> << <<"fmri">>, <<"fmri2">> >>, struct |-> << <<"structural">> >>]

\* lines 71-72
info == [func |-> << <<"fmri">> >>, struct |-> << <<"structural">> >>]

\* line 81: nio.DataGrabber(outfields=['func', 'struct'])
outfields == <<"func", "struct">>

\* line 84: '%s.nii.gz', as the list of its pieces
template == <<"%s", ".nii.gz">>

\* line 89: TR = 3.
TR == Rat(3, 1)

\* the cutoff multiplied by TR instead of divided
highpass_times_TR == Mul(FromInt(100), Lookup("TR"))

\* line 91: 100/TR
highpass == Div(FromInt(100), Lookup("TR"))

\* line 97
high_pass_filter_cutoff == 100

\* line 98: conditions=['Visual','Auditory']
conditions == <<"Visual", "Auditory">>

\* a third onset list for two conditions
onsets_three ==
    << range(0, int(Mul(FromInt(180), Lookup("TR"))), 60),
       range(0, int(Mul(FromInt(180), Lookup("TR"))), 90),
       range(0, int(Mul(FromInt(180), Lookup("TR"))), 90) >>

\* the end of the scan taken as a valid onset
onsets_inclusive ==
    << range(0, int(Mul(FromInt(180), Lookup("TR"))) + 1, 60),
       range(0, int(Mul(FromInt(180), Lookup("TR"))) + 1, 90) >>

\* line 99: onsets=[range(0,int(180*TR),60),range(0,int(180*TR),90)]
onsets ==
    << range(0, int(Mul(FromInt(180), Lookup("TR"))), 60),
       range(0, int(Mul(FromInt(180), Lookup("TR"))), 90) >>

\* a third duration list for two conditions
durations_three == << <<30>>, <<45>>, <<45>> >>

\* line 100: durations=[[30], [45]]
durations == << <<30>>, <<45>> >>

\* lines 98-105: [Bunch(conditions=..., onsets=..., durations=..., ...)]
subject_info ==
    << [conditions      |-> conditions,
        onsets          |-> onsets,
        durations       |-> durations,
        amplitudes      |-> None,
        tmod            |-> None,
        pmod            |-> None,
        regressor_names |-> None,
        regressors      |-> None] >>

\* lines 111-113
cont1 == <<"Visual>Baseline", "T", <<"Visual", "Auditory">>, <<1, 0>> >>

\* a weight vector written for three conditions
cont2_three_weights ==
    <<"Auditory>Baseline", "T", <<"Visual", "Auditory">>, <<0, 1, 0>> >>

cont2 == <<"Auditory>Baseline", "T", <<"Visual", "Auditory">>, <<0, 1>> >>
cont3 == <<"Task", "F", <<Lookup("cont1"), Lookup("cont2")>> >>

\* line 114: [cont1, cont2, cont3]
contrasts == <<Lookup("cont1"), Lookup("cont2"), Lookup("cont3")>>

\* an edge of the graph; a port name 'a.b' is the list of its components
Edge(s, o, d, i) == [src |-> s, out |-> o, dst |-> d, inp |-> i]

\* lines 130-137: the arguments of the eight l1pipeline.connect calls
connect_130 == Edge("datasource", <<"func">>,
                    "preproc", <<"inputspec", "func">>)
connect_131 == Edge("preproc", <<"outputspec", "highpassed_files">>,
                    "modelspec", <<"functional_runs">>)
connect_132 == Edge("preproc", <<"outputspec", "motion_parameters">>,
                    "modelspec", <<"realignment_parameters">>)

\* the session_info input wired to preproc instead of modelspec
connect_133_from_preproc ==
    Edge("preproc", <<"outputspec", "highpassed_files">>,
         "modelfit", <<"inputspec", "session_info">>)

connect_133 == Edge("modelspec", <<"session_info">>,
                    "modelfit", <<"inputspec", "session_info">>)

\* producer and consumer given in the wrong order
connect_134_swapped ==
    Edge("modelfit", <<"inputspec", "functional_data">>,
         "preproc", <<"outputspec", "highpassed_files">>)

connect_134 == Edge("preproc", <<"outputspec", "highpassed_files">>,
                    "modelfit", <<"inputspec", "functional_data">>)
connect_135 == Edge("preproc", <<"outputspec", "mean">>,
                    "registration", <<"inputspec", "mean_image">>)

\* the template_args name used where the outfield name is needed
connect_136_structural ==
    Edge("datasource", <<"structural">>,
         "registration", <<"inputspec", "anatomical_image">>)

connect_136 == Edge("datasource", <<"struct">>,
                    "registration", <<"inputspec", "anatomical_image">>)
connect_137 == Edge("modelfit", <<"outputspec", "zfiles">>,
                    "registration", <<"inputspec", "source_files">>)

Connections ==
    [l \in 130..137 |->
        CASE l = 130 -> connect_130
          [] l = 131 -> connect_131
          [] l = 132 -> connect_132
          [] l = 133 -> connect_133
          [] l = 134 -> connect_134
          [] l = 135 -> connect_135
          [] l = 136 -> connect_136
          [] l = 137 -> connect_137]

\* the descriptor of the object a constructor call creates
Descriptor(target) ==
    CASE target = "datasource"   -> [kind |-> "Node", made_by |-> "nio.DataGrabber",
                                     outfields |-> outfields]
      [] target = "preproc"      -> [kind |-> "Workflow", made_by |-> "create_featreg_preproc"]
      [] target = "modelspec"    -> [kind |-> "Node", made_by |-> "model.SpecifyModel"]
      [] target = "modelfit"     -> [kind |-> "Workflow", made_by |-> "create_modelfit_workflow"]
      [] target = "registration" -> [kind |-> "Workflow", made_by |-> "create_reg_workflow"]
      [] target = "l1pipeline"   -> [kind |-> "Workflow", made_by |-> "pe.Workflow"]

\* the value the statement at a line assigns, binds or connects
Value(line) ==
    CASE line = 38  -> "NIFTI_GZ"
      [] line = 68  -> feeds_data_dir
      [] line = 71  -> info
      [] line = 83  -> Lookup("feeds_data_dir")
      [] line = 84  -> template
      [] line = 85  -> Lookup("info")
      [] line = 86  -> TRUE
      [] line = 89  -> TR
      [] line = 90  -> 5
      [] line = 91  -> highpass
      [] line = 95  -> "secs"
      [] line = 96  -> Lookup("TR")
      [] line = 97  -> high_pass_filter_cutoff
      [] line = 98  -> subject_info
      [] line = 108 -> Lookup("TR")
      [] line = 109 -> TRUE
      [] line = 110 -> [dgamma |-> [derivs |-> TRUE]]
      [] line = 111 -> cont1
      [] line = 112 -> cont2
      [] line = 113 -> cont3
      [] line = 114 -> contrasts
      [] line = 117 -> <<"fsl.Info.standard_image", "MNI152_T1_2mm.nii.gz">>
      [] line = 118 -> <<"fsl.Info.standard_image", "MNI152_T1_2mm_brain.nii.gz">>
      [] line = 119 -> "T1_2_MNI152_2mm"
      [] line = 127 -> abspath(cwd, <<".", "fsl_feeds", "workingdir">>)
      [] line = 128 -> [execution |->
                          [crashdump_dir |-> abspath(cwd, <<".", "fsl_feeds", "crashdumps">>)]]
      [] line \in 130..137 -> Connections[line]

St(l, o, t, a) == [line |-> l, op |-> o, target |-> t, attr |-> a]

\* The statements of the module body, in source order.
Program ==
    << St(38, "set",     "fsl.FSLCommand", "default_output_type"),
       St(68, "bind",    "feeds_data_dir", ""),
       St(71, "bind",    "info", ""),
       St(81, "new",     "datasource", ""),
       St(83, "set",     "datasource", "inputs.base_directory"),
       St(84, "set",     "datasource", "inputs.template"),
       St(85, "set",     "datasource", "inputs.template_args"),
       St(86, "set",     "datasource", "inputs.sort_filelist"),
       St(88, "new",     "preproc", ""),
       St(89, "bind",    "TR", ""),
       St(90, "set",     "preproc", "inputs.inputspec.fwhm"),
       St(91, "set",     "preproc", "inputs.inputspec.highpass"),
       St(93, "new",     "modelspec", ""),
       St(95, "set",     "modelspec", "inputs.input_units"),
       St(96, "set",     "modelspec", "inputs.time_repetition"),
       St(97, "set",     "modelspec", "inputs.high_pass_filter_cutoff"),
       St(98, "set",     "modelspec", "inputs.subject_info"),
       St(107, "new",     "modelfit", ""),
       St(108, "set",     "modelfit", "inputs.inputspec.interscan_interval"),
       St(109, "set",     "modelfit", "inputs.inputspec.model_serial_correlations"),
       St(110, "set",     "modelfit", "inputs.inputspec.bases"),
       St(111, "bind",    "cont1", ""),
       St(112, "bind",    "cont2", ""),
       St(113, "bind",    "cont3", ""),
       St(114, "set",     "modelfit", "inputs.inputspec.contrasts"),
       St(116, "new",     "registration", ""),
       St(117, "set",     "registration", "inputs.inputspec.target_image"),
       St(118, "set",     "registration", "inputs.inputspec.target_image_brain"),
       St(119, "set",     "registration", "inputs.inputspec.config_file"),
       St(126, "new",     "l1pipeline", ""),
       St(127, "set",     "l1pipeline", "base_dir"),
       St(128, "set",     "l1pipeline", "config"),
       St(130, "connect", "l1pipeline", "connect"),
       St(131, "connect", "l1pipeline", "connect"),
       St(132, "connect", "l1pipeline", "connect"),
       St(133, "connect", "l1pipeline", "connect"),
       St(134, "connect", "l1pipeline", "connect"),
       St(135, "connect", "l1pipeline", "connect"),
       St(136, "connect", "l1pipeline", "connect"),
       St(137, "connect", "l1pipeline", "connect"),
       St(165, "guard",   "__name__", ""),
       St(166, "run",     "l1pipeline", "run") >>

End == Len(Program) + 1

AtOp(o) == phase = "load" /\ pc \in 1..Len(Program) /\ Program[pc].op = o

\* the guard left out: run() on import too
IsMainAlways(n) == TRUE

\* the condition of line 165: __name__ == '__main__'
IsMain(n) == n = "__main__"

Empty == [x \in {} |-> None]

\* the nodes of the l1pipeline graph: the endpoints of its edges
GraphNodes(E) == {e.src : e \in E} \cup {e.dst : e \in E}

----------------------------------------------------------------------------
(* Initial state: the interpreter is about to execute the module body *)

Init ==
    /\ cwd \in Cwds
    /\ \E n \in Names : globals = ("__name__" :> n)
    /\ pc = 1
    /\ objects = ("fsl.FSLCommand" :> [kind |-> "Class", made_by |-> "import"])
    /\ attrs = Empty
    /\ edges = {}
    /\ runs = 0
    /\ phase = "load"
    /\ status = Empty
    /\ order = <<>>

----------------------------------------------------------------------------
(* The statements of the module body *)

\* name = <expression>            (lines 68, 71, 89, 111-113)
Bind ==
    /\ AtOp("bind")
    /\ globals' = (Program[pc].target :> Value(Program[pc].line)) @@ globals
    /\ pc' = pc + 1
    /\ UNCHANGED <<cwd, objects, attrs, edges, runs, phase, status, order>>

\* name = pe.Node(...) / create_*(...) / pe.Workflow(...)
\*                                (lines 81, 88, 93, 107, 116, 126)
Construct ==
    /\ AtOp("new")
    /\ objects' = (Program[pc].target :> Descriptor(Program[pc].target)) @@ objects
    /\ pc' = pc + 1
    /\ UNCHANGED <<cwd, globals, attrs, edges, runs, phase, status, order>>

\* obj.attr = <expression>, and fsl.FSLCommand.set_default_output_type(...)
\*                                (lines 38, 83-86, 90-91, 95-98, 108-110,
\*                                 114, 117-119, 127-128)
Assign ==
    /\ AtOp("set")
    /\ Program[pc].target \in DOMAIN objects
    /\ attrs' = (<<Program[pc].target, Program[pc].attr>> :> Value(Program[pc].line))
                    @@ attrs
    /\ pc' = pc + 1
    /\ UNCHANGED <<cwd, globals, objects, edges, runs, phase, status, order>>

\* l1pipeline.connect(src, out, dst, inp)          (lines 130-137)
Connect ==
    /\ AtOp("connect")
    /\ Program[pc].target \in DOMAIN objects
    /\ LET e == Value(Program[pc].line) IN
         /\ {e.src, e.dst} \subseteq DOMAIN objects
         /\ edges' = edges \cup {e}
    /\ pc' = pc + 1
    /\ UNCHANGED <<cwd, globals, objects, attrs, runs, phase, status, order>>

\* if __name__ == '__main__':                      (line 165)
MainGuard ==
    /\ AtOp("guard")
    /\ pc' = IF IsMain(globals[Program[pc].target]) THEN pc + 1 ELSE End
    /\ UNCHANGED <<cwd, globals, objects, attrs, edges, runs, phase, status, order>>

\* l1pipeline.run(): the call enters the engine    (line 166)
Run ==
    /\ AtOp("run")
    /\ Program[pc].target \in DOMAIN objects
    /\ runs' = runs + 1
    /\ phase' = "exec"
    /\ status' = [n \in GraphNodes(edges) |-> "pending"]
    /\ order' = <<>>
    /\ UNCHANGED <<cwd, pc, globals, objects, attrs, edges>>

----------------------------------------------------------------------------
(* Execution of the graph inside run(): a node starts only after all       *)
(* producers of its incoming edges have finished.                          *)

Ready(n) == \A e \in edges : e.dst = n => status[e.src] = "done"

StartNode(n) ==
    /\ phase = "exec"
    /\ status[n] = "pending"
    /\ Ready(n)
    /\ status' = [status EXCEPT ![n] = "running"]
    /\ order' = Append(order, n)
    /\ UNCHANGED <<cwd, pc, globals, objects, attrs, edges, runs, phase>>

FinishNode(n) ==
    /\ phase = "exec"
    /\ status[n] = "running"
    /\ status' = [status EXCEPT ![n] = "done"]
    /\ UNCHANGED <<cwd, pc, globals, objects, attrs, edges, runs, phase, order>>

\* run() returns once every node has finished; the module body ends
RunReturn ==
    /\ phase = "exec"
    /\ \A n \in DOMAIN status : status[n] = "done"
    /\ phase' = "load"
    /\ pc' = pc + 1
    /\ UNCHANGED <<cwd, globals, objects, attrs, edges, runs, status, order>>

Next ==
    \/ Bind
    \/ Construct
    \/ Assign
    \/ Connect
    \/ MainGuard
    \/ Run
    \/ \E n \in DOMAIN status : StartNode(n)
    \/ \E n \in DOMAIN status : FinishNode(n)
    \/ RunReturn

Spec == Init /\ [][Next]_vars

----------------------------------------------------------------------------
(* The collaborators of the file, as far as the properties below read them. *)
(* The data grabber, the model specifier and the create_* workflows are    *)
(* defined in the library (nipype.interfaces.io, nipype.algorithms.modelgen,*)
(* nipype.workflows.fmri.fsl), not in this file: their template expansion  *)
(* and their port names are stated here as the library declares them.      *)

Assigned(obj, attr) == <<obj, attr>> \in DOMAIN attrs

Attr(obj, attr) == attrs[<<obj, attr>>]

Set(seq) == {seq[i] : i \in 1..Len(seq)}

\* template % tuple(args): each '%s' piece takes the next argument
RECURSIVE Format(_, _)
Format(pieces, args) ==
    IF pieces = <<>>
    THEN IF args = <<>> THEN "" ELSE "TypeError"
    ELSE IF Head(pieces) = "%s"
         THEN IF args = <<>> THEN "TypeError"
              ELSE LET rest == Format(Tail(pieces), Tail(args)) IN
                   IF rest = "TypeError" THEN rest ELSE Head(args) \o rest
         ELSE LET rest == Format(Tail(pieces), args) IN
              IF rest = "TypeError" THEN rest ELSE Head(pieces) \o rest

\* the data grabber's file paths for a field: one per argument list of
\* template_args[field], the filled template under base_directory
Expand(field) ==
    LET args == Attr("datasource", "inputs.template_args")[field] IN
    [i \in 1..Len(args) |->
        Attr("datasource", "inputs.base_directory")
            \o <<Format(Attr("datasource", "inputs.template"), args[i])>>]

\* the output ports of a node of the graph
OutputPorts(n) ==
    CASE n = "datasource" ->
           {<<f>> : f \in Set(objects[n].outfields)}
      [] n = "preproc" ->
           {<<"outputspec", f>> : f \in
               {"reference", "motion_parameters", "realigned_files", "motion_plots",
                "mask", "smoothed_files", "highpassed_files", "mean"}}
      [] n = "modelspec" ->
           {<<"session_info">>}
      [] n = "modelfit" ->
           {<<"outputspec", f>> : f \in
               {"copes", "varcopes", "dof_file", "pfiles", "zfiles",
                "parameter_estimates"}}
      [] n = "registration" ->
           {<<"outputspec", f>> : f \in
               {"func2anat_transform", "anat2target_transform",
                "transformed_files", "transformed_mean"}}
      [] OTHER -> {}

\* the input ports of a node of the graph
InputPorts(n) ==
    CASE n = "datasource" ->
           {<<f>> : f \in {"base_directory", "template", "template_args",
                           "sort_filelist"}}
      [] n = "preproc" ->
           {<<"inputspec", f>> : f \in {"func", "fwhm", "highpass"}}
      [] n = "modelspec" ->
           {<<f>> : f \in
               {"subject_info", "event_files", "realignment_parameters",
                "outlier_files", "functional_runs", "input_units",
                "high_pass_filter_cutoff", "time_repetition"}}
      [] n = "modelfit" ->
           {<<"inputspec", f>> : f \in
               {"session_info", "interscan_interval", "contrasts", "film_threshold",
                "functional_data", "bases", "model_serial_correlations"}}
      [] n = "registration" ->
           {<<"inputspec", f>> : f \in
               {"source_files", "mean_image", "anatomical_image", "target_image",
                "target_image_brain", "config_file"}}
      [] OTHER -> {}

----------------------------------------------------------------------------
(* Graph notions *)

\* n reaches m by one or more producer-to-consumer edges of E
RECURSIVE ReachFrom(_, _, _)
ReachFrom(E, frontier, seen) ==
    LET next == {e.dst : e \in {x \in E : x.src \in frontier}} \ seen IN
    IF next = {} THEN seen ELSE ReachFrom(E, next, seen \cup next)

Reaches(E, n, m) == m \in ReachFrom(E, {n}, {})

Acyclic(E) == \A n \in GraphNodes(E) : ~Reaches(E, n, n)

\* the orders of the nodes of E in which every producer precedes its consumers
TopologicalOrders(E) ==
    LET N == GraphNodes(E)
        k == Cardinality(N)
    IN  {s \in [1..k -> N] :
            /\ \A i, j \in 1..k : i # j => s[i] # s[j]
            /\ \A e \in E : \A i, j \in 1..k :
                   (s[i] = e.src /\ s[j] = e.dst) => i < j}

IsPrefix(s, t) == Len(s) <= Len(t) /\ SubSeq(t, 1, Len(s)) = s

\* the module body has executed every connect call
Wired == pc > Len(Program) - 2

----------------------------------------------------------------------------
(* Properties *)

PipelineNodes == {"datasource", "preproc", "modelspec", "modelfit", "registration"}

\* C1: the l1pipeline graph is acyclic after every connect call, and once
\* all connect calls have executed its nodes are datasource, preproc,
\* modelspec, modelfit and registration and it has eight edges.
C1_Acyclic ==
    /\ Acyclic(edges)
    /\ Wired => /\ GraphNodes(edges) = PipelineNodes
                /\ Cardinality(edges) = 8

C1_Witness == Wired /\ Cardinality(edges) = 8 /\ Reaches(edges, "datasource", "registration")

\* C2: every declared edge names an output that exists on its producer and
\* an input that exists on its consumer; an edge leaving datasource names
\* one of its outfields, an edge leaving a workflow names an 'outputspec.'
\* port and an edge entering a workflow names an 'inputspec.' port.
C2_PortsExist ==
    \A e \in edges :
        /\ e.out \in OutputPorts(e.src)
        /\ e.inp \in InputPorts(e.dst)
        /\ e.src = "datasource" => /\ Len(e.out) = 1
                                   /\ e.out[1] \in Set(outfields)
        /\ objects[e.src].kind = "Workflow" => e.out[1] = "outputspec"
        /\ objects[e.dst].kind = "Workflow" => e.inp[1] = "inputspec"

C2_Witness ==
    /\ Cardinality(edges) = 8
    /\ \E e \in edges : e.src = "datasource" /\ e.out = <<"struct">>
    /\ \E e \in edges : objects[e.src].kind = "Workflow" /\ objects[e.dst].kind = "Workflow"

\* C3: in every record of modelspec.inputs.subject_info the number of onset
\* lists and the number of duration lists equal the number of conditions.
C3_OnsetsMatchConditions ==
    Assigned("modelspec", "inputs.subject_info") =>
        LET info_ == Attr("modelspec", "inputs.subject_info") IN
        \A k \in 1..Len(info_) :
            /\ Len(info_[k].onsets) = Len(info_[k].conditions)
            /\ Len(info_[k].durations) = Len(info_[k].conditions)

C3_Witness ==
    /\ Assigned("modelspec", "inputs.subject_info")
    /\ Len(Attr("modelspec", "inputs.subject_info")) = 1
    /\ Len(Attr("modelspec", "inputs.subject_info")[1].conditions) > 0

\* C4 as stated: the configured subject_info declares two condition names
\* but three onset lists and three duration lists.
C4_ThreeOnsetLists ==
    Assigned("modelspec", "inputs.subject_info") =>
        LET b == Attr("modelspec", "inputs.subject_info")[1] IN
        /\ b.conditions = <<"Visual", "Auditory">>
        /\ Len(b.onsets) = 3
        /\ Len(b.durations) = 3

\* C4 as amended: the configured subject_info declares two condition names
\* ('Visual', 'Auditory'), exactly two onset lists and exactly two duration
\* lists, one of each per condition.
C4_TwoOnsetLists ==
    Assigned("modelspec", "inputs.subject_info") =>
        LET b == Attr("modelspec", "inputs.subject_info")[1] IN
        /\ b.conditions = <<"Visual", "Auditory">>
        /\ Len(b.onsets) = 2
        /\ Len(b.durations) = 2

C4_Witness ==
    /\ Assigned("modelspec", "inputs.subject_info")
    /\ Attr("modelspec", "inputs.subject_info")[1].durations = << <<30>>, <<45>> >>

\* C5: run() is invoked at most once and only when __name__ is '__main__';
\* once it has been invoked no name is bound, no object constructed, no
\* attribute assigned and no edge connected.
C5_ConfiguredBeforeRun ==
    /\ [](runs <= 1 /\ (runs >= 1 => globals["__name__"] = "__main__"))
    /\ [][runs >= 1 => UNCHANGED <<globals, objects, attrs, edges>>]_vars
    /\ [][runs' > runs => (Wired /\ Cardinality(edges) = 8
                           /\ DOMAIN objects = PipelineNodes
                                  \cup {"l1pipeline", "fsl.FSLCommand"})]_vars

C5_Witness == runs = 1 /\ phase = "load" /\ pc = End /\ Len(order) = 5

\* C6: template_args has an entry for exactly the declared outfields, each
\* holding one argument list of one name, and expanding the template under
\* the base directory gives one path per field: fmri.nii.gz for func and
\* structural.nii.gz for struct.
C6_OneFilePerField ==
    (/\ Assigned("datasource", "inputs.base_directory")
     /\ Assigned("datasource", "inputs.template")
     /\ Assigned("datasource", "inputs.template_args")) =>
        LET args == Attr("datasource", "inputs.template_args")
            base == Attr("datasource", "inputs.base_directory")
        IN  /\ DOMAIN args = Set(objects["datasource"].outfields)
            /\ \A f \in DOMAIN args : Len(args[f]) = 1 /\ Len(args[f][1]) = 1
            /\ Expand("func") = << base \o <<"fmri.nii.gz">> >>
            /\ Expand("struct") = << base \o <<"structural.nii.gz">> >>
            /\ base = cwd \o <<"feeds", "data">>

C6_Witness ==
    /\ Assigned("datasource", "inputs.template_args")
    /\ Len(Expand("func")) = 1
    /\ Expand("struct")[1][Len(Expand("struct")[1])] = "structural.nii.gz"

\* the condition names declared in modelspec's subject_info
DeclaredConditions ==
    UNION {Set(Attr("modelspec", "inputs.subject_info")[k].conditions) :
              k \in 1..Len(Attr("modelspec", "inputs.subject_info"))}

\* C7: every contrast assigned to modelfit.inputs.inputspec.contrasts is
\* well formed: a 'T' contrast has as many weights as conditions and names
\* only conditions declared in subject_info, an 'F' contrast references only
\* 'T' contrasts that are members of the assigned list, and the contrast
\* names are pairwise distinct.
C7_ContrastsWellFormed ==
    Assigned("modelfit", "inputs.inputspec.contrasts") =>
        LET cs == Attr("modelfit", "inputs.inputspec.contrasts") IN
        /\ \A i \in 1..Len(cs) :
              /\ cs[i][2] \in {"T", "F"}
              /\ cs[i][2] = "T" =>
                    /\ Len(cs[i]) = 4
                    /\ Len(cs[i][4]) = Len(cs[i][3])
                    /\ Set(cs[i][3]) \subseteq DeclaredConditions
              /\ cs[i][2] = "F" =>
                    /\ Len(cs[i]) = 3
                    /\ \A k \in 1..Len(cs[i][3]) :
                          /\ cs[i][3][k][2] = "T"
                          /\ \E j \in 1..Len(cs) :
                                /\ Len(cs[j]) = Len(cs[i][3][k])
                                /\ cs[j] = cs[i][3][k]
        /\ \A i, j \in 1..Len(cs) : i # j => cs[i][1] # cs[j][1]

C7_Witness ==
    /\ Assigned("modelfit", "inputs.inputspec.contrasts")
    /\ LET cs == Attr("modelfit", "inputs.inputspec.contrasts") IN
       /\ Len(cs) = 3
       /\ cs[3][2] = "F" /\ Len(cs[3][3]) = 2
       /\ cs[1][2] = "T" /\ cs[2][4] = <<0, 1>>

ExpectedOrder == <<"datasource", "preproc", "modelspec", "modelfit", "registration">>

\* C8: when a node starts only after all its producers have finished, the
\* nodes start in the order datasource, preproc, modelspec, modelfit,
\* registration; the declared edges admit exactly that one topological
\* order, every node is reachable from datasource, and registration is the
\* only node with no outgoing edge.
C8_SingleOrder ==
    /\ IsPrefix(order, ExpectedOrder)
    /\ Wired =>
          /\ TopologicalOrders(edges) = {ExpectedOrder}
          /\ \A n \in GraphNodes(edges) \ {"datasource"} :
                 Reaches(edges, "datasource", n)
          /\ {n \in GraphNodes(edges) : \A e \in edges : e.src # n} = {"registration"}

C8_Witness ==
    /\ order = ExpectedOrder
    /\ \A n \in DOMAIN status : status[n] = "done"

\* C9: modelspec.inputs.time_repetition and
\* modelfit.inputs.inputspec.interscan_interval are both TR = 3, and the
\* preprocessing highpass multiplied by TR equals the model specification's
\* high-pass cutoff of 100 seconds.
C9_RepetitionTimeConsistent ==
    /\ Assigned("modelspec", "inputs.time_repetition") =>
          Attr("modelspec", "inputs.time_repetition") = FromInt(3)
    /\ Assigned("modelfit", "inputs.inputspec.interscan_interval") =>
          /\ Attr("modelfit", "inputs.inputspec.interscan_interval") = FromInt(3)
          /\ Attr("modelfit", "inputs.inputspec.interscan_interval")
                = Attr("modelspec", "inputs.time_repetition")
          /\ Attr("modelfit", "inputs.inputspec.interscan_interval") = globals["TR"]
    /\ Assigned("modelspec", "inputs.high_pass_filter_cutoff") =>
          /\ Attr("modelspec", "inputs.high_pass_filter_cutoff") = 100
          /\ Mul(Attr("preproc", "inputs.inputspec.highpass"), globals["TR"])
                = FromInt(Attr("modelspec", "inputs.high_pass_filter_cutoff"))

C9_Witness ==
    /\ Assigned("modelfit", "inputs.inputspec.interscan_interval")
    /\ Assigned("modelspec", "inputs.high_pass_filter_cutoff")
    /\ Attr("preproc", "inputs.inputspec.highpass") = Rat(100, 3)

\* the length of the scan in seconds: 180 volumes of TR seconds
ScanSeconds == int(Mul(FromInt(180), globals["TR"]))

\* C10: for each condition the onsets are range(0, 540, step) (Visual: step
\* 60, duration 30; Auditory: step 90, duration 45); the events are strictly
\* increasing in onset, do not overlap within the condition, and all end at
\* or before the scan length of 180*TR = 540 seconds.
C10_EventsWithinScan ==
    Assigned("modelspec", "inputs.subject_info") =>
        LET b == Attr("modelspec", "inputs.subject_info")[1]
            step == [c \in {"Visual", "Auditory"} |-> IF c = "Visual" THEN 60 ELSE 90]
            dur  == [c \in {"Visual", "Auditory"} |-> IF c = "Visual" THEN 30 ELSE 45]
        IN  /\ ScanSeconds = 540
            /\ \A i \in 1..Len(b.conditions) :
                  LET on == b.onsets[i]
                      d  == b.durations[i]
                  IN  /\ Len(d) = 1
                      /\ d[1] = dur[b.conditions[i]]
                      /\ Len(on) > 0 /\ on[1] = 0
                      /\ \A k \in 1..(Len(on) - 1) :
                            /\ on[k + 1] = on[k] + step[b.conditions[i]]
                            /\ on[k] < on[k + 1]
                            /\ on[k] + d[1] <= on[k + 1]
                      /\ \A k \in 1..Len(on) : on[k] + d[1] <= ScanSeconds
                      /\ on[Len(on)] + step[b.conditions[i]] >= ScanSeconds

C10_Witness ==
    /\ Assigned("modelspec", "inputs.subject_info")
    /\ Attr("modelspec", "inputs.subject_info")[1].onsets
          = << <<0, 60, 120, 180, 240, 300, 360, 420, 480>>,
               <<0, 90, 180, 270, 360, 450>> >>

====
